---- MODULE Spec2Model ----
(***************************************************************************)
(* MongoStore (src/src/mongoStore.ts): a bot-state store with a durable    *)
(* MongoDB collection and an optional Redis cache.  The model follows the  *)
(* class method by method.  Every driver call (find, bulkWrite, deleteMany,*)
(* ping, connect, get, set, del) is a backend operation in flight: it is   *)
(* started by the method that issues it and settles in a later step, when  *)
(* the backend applies it and the awaiting continuation of the method runs.*)
(***************************************************************************)
EXTENDS Integers, Sequences, FiniteSets, TLC

\* ------------------------------------------------------------------ bounds
\* ObjectIds that may be generated in one behaviour (new ObjectId() is unbounded).
MaxId == 2

\* ------------------------------------------------------------------ domains
Keys == {"a", "b"}
KeyOrder == <<"a", "b">>
Contents == {1, 2}
\* the eTags a caller supplies itself (from an earlier read); never generated here
CallerTags == {0}
\* a state object as the caller hands it in: { v } or { v, eTag }
States == [v : Contents] \cup [v : Contents, eTag : CallerTags]
\* the empty object {} / an empty argument
Empty == [k \in {} |-> 0]
\* Redis nil reply / JS null: the falsy value of `if (value)`
Nil == <<>>
Procs == {"c1", "c2"}
NoOwner == "none"

\* ------------------------------------------------------------------ JSON
\* property order of the state objects
FieldOrder == <<"v", "eTag">>

\* JSON.stringify(state): the text, as the sequence of its name/value pairs
Stringify_DropTag(s) ==
    [i \in 1..1 |-> <<"v", s["v"]>>]
Stringify(s) ==
    LET present == SelectSeq(FieldOrder, LAMBDA f : f \in DOMAIN s)
    IN  [i \in 1..Len(present) |-> <<present[i], s[present[i]]>>]

\* JSON.parse(text)
Parse(t) ==
    [f \in {t[i][1] : i \in 1..Len(t)} |->
        LET i == CHOOSE j \in 1..Len(t) : t[j][1] = f IN t[i][2]]

\* state.eTag = <token>: sets or overwrites the property on the caller's object
Stamp_KeepCallerTag(s, tok) ==
    [f \in DOMAIN s \cup {"eTag"} |->
        IF f = "eTag" THEN (IF "eTag" \in DOMAIN s THEN s["eTag"] ELSE tok) ELSE s[f]]
Stamp(s, tok) ==
    [f \in DOMAIN s \cup {"eTag"} |-> IF f = "eTag" THEN tok ELSE s[f]]

\* position of key k in Object.keys order
Pos(k) == CHOOSE i \in 1..Len(KeyOrder) : KeyOrder[i] = k
\* the ObjectId generated for key k by a forEach over `keys` starting at id
Token(k, keys, id) == id + Cardinality({j \in keys : Pos(j) < Pos(k)})

VARIABLES
    isCacheEnabled, \* this.isCacheEnabled (and: this.rClient is defined)
    disableWriteConcern, \* this.disableWriteConcern
    phase,          \* "new" | "connecting" | "ready" | "failed": the connect() lifecycle
    storage,        \* the Mongo collection: a set of documents
    cache,          \* the Redis keyspace: key -> text or Nil
    nextId,         \* the next ObjectId
    callers,        \* the callers that issue calls on the store
    call,           \* per caller: the call in progress and its local variables
    ops,            \* backend operations in flight
    last,           \* per key: what the last completed call left there, if certain
    ref             \* the same calls on a store constructed without the redis option

vars == <<isCacheEnabled, disableWriteConcern, phase, storage, cache, nextId, callers, call, ops, last, ref>>

\* ------------------------------------------------------------------ the store object
\* createClient(redisOptions) runs only when options.redis is given: rClient is
\* undefined otherwise
rClientDefined == isCacheEnabled

\* a caller's slot before its first call
Idle ==
    [op |-> "none", pc |-> "idle", keys |-> {}, arg |-> Empty, changes |-> Empty,
     got |-> Empty, missing |-> {}, mongoResponse |-> 0, redisResponse |-> 0,
     issued |-> {},
     out |-> "none", err |-> "none", res |-> Empty]

\* the options argument of a driver call that is given none
NoConcern == [w |-> "none"]
\* { writeConcern: !this.disableWriteConcern ? { w: 0 } : { w: 'majority' } },
\* lines 226 and 238
WriteConcern_ByCache ==
    IF isCacheEnabled THEN [w |-> "0"] ELSE [w |-> "majority"]
WriteConcern ==
    IF ~disableWriteConcern THEN [w |-> "0"] ELSE [w |-> "majority"]

\* a driver call in flight, started by caller p's `from` call; join: the call awaits it
Op(p, from, kind, keys, data, etag) ==
    [owner |-> p, join |-> TRUE, from |-> from, kind |-> kind, keys |-> keys,
     data |-> data, etag |-> etag, writeConcern |-> NoConcern]

MongoKinds == {"mconnect", "find", "bulkWrite", "deleteMany", "ping"}
RedisKinds == {"rconnect", "get", "set", "del", "rping"}
\* the driver calls that change a tier
Effectful == {"bulkWrite", "deleteMany", "set", "del"}

\* the method resolves / rejects
Resolve(c, res) == [c EXCEPT !.pc = "done", !.out = "ok", !.res = res]
Reject(c, e) == [c EXCEPT !.pc = "done", !.out = "err", !.err = e]

\* what a call leaves in flight once its caller has moved on: nobody awaits these;
\* a lookup or probe among them can no longer affect anything and is dropped
Detach(p) ==
    {[o EXCEPT !.owner = NoOwner, !.join = FALSE] :
        o \in {x \in ops : x.owner = p /\ x.kind \in Effectful}}
Detached == {o \in ops : o.owner = NoOwner}
\* Caller p may issue a call: its previous call has returned, and what a failed
\* call left in flight in the tiers has settled (callers let the store quiesce).
CanCall(p) ==
    /\ p \in callers
    /\ call[p].pc # "wait"
    /\ Detached \cup Detach(p) = {}

\* ------------------------------------------------------------------ the backends
\* Object.assign(target, source)
Assign(f, g) ==
    [k \in DOMAIN f \cup DOMAIN g |-> IF k \in DOMAIN g THEN g[k] ELSE f[k]]

\* one updateOne { filter: {_id: k}, update: {$set: {state, date, etag}}, upsert: true }
\* (the date field is not modelled: nothing reads it)
UpdateOne_Insert(S, k, st, tg) ==
    S \cup {[_id |-> k, state |-> st, etag |-> tg]}
UpdateOne(S, k, st, tg) ==
    IF \E d \in S : d._id = k
    THEN LET d == CHOOSE x \in S : x._id = k
         IN  (S \ {d}) \cup {[d EXCEPT !.state = st, !.etag = tg]}
    ELSE S \cup {[_id |-> k, state |-> st, etag |-> tg]}

\* storage.bulkWrite(operations): the operations in order
RECURSIVE BulkWrite(_, _, _)
BulkWrite(S, o, i) ==
    IF i > Len(KeyOrder) THEN S
    ELSE LET k == KeyOrder[i]
         IN  BulkWrite(IF k \in o.keys THEN UpdateOne(S, k, o.data[k], o.etag[k]) ELSE S,
                       o, i + 1)

\* storage.deleteMany({_id: {$in: keys}})
DeleteMany(S, keys) == {d \in S : d._id \notin keys}

\* storage.find({_id: {$in: keys}}).toArray()
Find(S, keys) == {d \in S : d._id \in keys}

\* the error a driver call rejects with
ErrorOf(o) == IF o.kind \in MongoKinds THEN "MongoError" ELSE "RedisError"

\* What the driver hands back when operation o settles now; ok = FALSE: the promise
\* rejects.  Whether the backend is reachable at that moment is the environment's
\* choice: a reachable backend applies the operation and answers it, an
\* unreachable one leaves the tier alone and the call rejects; for the two probes
\* the code also provides for a reply that is falsy (a mongoResponse.ok of 0, an
\* empty ping reply).
Answer(o) ==
    CASE o.kind = "find" -> [ok |-> TRUE, val |-> Find(storage, o.keys)]
      [] o.kind = "get"  -> [ok |-> TRUE, val |-> cache[CHOOSE k \in o.keys : TRUE]]
      [] OTHER           -> [ok |-> TRUE, val |-> 1]
Replies(o) ==
    {Answer(o), [ok |-> FALSE, val |-> 0]}
        \cup (IF o.kind \in {"ping", "rping"} THEN {[ok |-> TRUE, val |-> 0]} ELSE {})

\* collection S after operation o settled with reply r
StorageApply(S, o, r) ==
    IF ~r.ok THEN S
    ELSE CASE o.kind = "bulkWrite"  -> BulkWrite(S, o, 1)
           [] o.kind = "deleteMany" -> DeleteMany(S, o.keys)
           [] OTHER                 -> S
StorageAfter(o, r) == StorageApply(storage, o, r)

\* the keyspace after operation o settled with reply r: SET key text EX ttl / DEL key
CacheAfter_SetNX(o, r) ==
    IF ~r.ok THEN cache
    ELSE CASE o.kind = "set" -> [k \in Keys |-> IF k \in o.keys /\ cache[k] = Nil
                                                 THEN o.data[k] ELSE cache[k]]
           [] o.kind = "del" -> [k \in Keys |-> IF k \in o.keys THEN Nil ELSE cache[k]]
           [] OTHER          -> cache
CacheAfter(o, r) ==
    IF ~r.ok THEN cache
    ELSE CASE o.kind = "set" -> [k \in Keys |-> IF k \in o.keys THEN o.data[k] ELSE cache[k]]
           [] o.kind = "del" -> [k \in Keys |-> IF k \in o.keys THEN Nil ELSE cache[k]]
           [] OTHER          -> cache

\* ------------------------------------------------------------------ the methods
\* Each method is given by what it does up to its first await (...Start) and by
\* the continuation that runs when an operation it awaits settles (...Then); both
\* yield the call's new locals and the driver calls issued.
Step(c, new) == [call |-> [c EXCEPT !.issued = @ \cup {o.kind : o \in new}], ops |-> new]

\* await Promise.all(promises), as one of them settles with reply r and `rest` are
\* still pending: rejects on the first rejection, resolves when none is left
PromiseAll_Any(c, o, r, rest) ==
    IF r.ok THEN Resolve(c, c.res) ELSE Reject(c, ErrorOf(o))
PromiseAll(c, o, r, rest) ==
    IF ~r.ok THEN Reject(c, ErrorOf(o))
    ELSE IF rest = {} THEN Resolve(c, c.res) ELSE c

\* connect(), lines 102-119
ConnectStart(p) ==
    LET both == isCacheEnabled /\ rClientDefined
        c == [Idle EXCEPT !.op = "connect", !.pc = "wait",
                          !.res = IF both THEN [mongo |-> 0, redis |-> 0] ELSE [mongo |-> 0]]
    IN  Step(c, {Op(p, "connect", "mconnect", {}, Empty, Empty)}
                \cup (IF both THEN {Op(p, "connect", "rconnect", {}, Empty, Empty)} ELSE {}))

ConnectThen_Swallow(c, o, r, rest) ==
    Step(PromiseAll(c, o, [r EXCEPT !.ok = TRUE], rest), {})
ConnectThen(c, o, r, rest) ==
    LET flag == IF o.kind = "mconnect" THEN "mongo" ELSE "redis"
        c1 == IF r.ok THEN [c EXCEPT !.res = [c.res EXCEPT ![flag] = 1]] ELSE c
    IN  Step(PromiseAll(c1, o, r, rest), {})

\* readMongo(stateKeys), lines 186-194: the find, and the reduce over its documents
ReadMongo(p, keys) == {Op(p, "read", "find", keys, Empty, Empty)}
MongoStates(docs) ==
    [k \in {d._id : d \in docs} |-> Parse((CHOOSE d \in docs : d._id = k).state)]

\* readRedis(stateKeys), lines 161-184: one get per key, and the reduce over the replies
ReadRedis_GetDel(p, keys) ==
    {Op(p, "read", "get", {k}, Empty, Empty) : k \in keys}
        \cup {[Op(p, "read", "del", {k}, Empty, Empty) EXCEPT !.join = FALSE] : k \in keys}
ReadRedis(p, keys) == {Op(p, "read", "get", {k}, Empty, Empty) : k \in keys}
Cached_NoCheck(c) ==
    [k \in c.keys |-> IF c.got[k] # Nil THEN Parse(c.got[k]) ELSE Empty]
Cached(c) ==
    [k \in {x \in c.keys : c.got[x] # Nil} |-> Parse(c.got[k])]
Missing_All(c) ==
    c.keys
Missing(c) ==
    {k \in c.keys : c.got[k] = Nil}

\* read(stateKeys), lines 122-139, on a store whose isCacheEnabled is `enabled`
ReadStart(enabled, p, keys) ==
    LET c == [Idle EXCEPT !.op = "read", !.keys = keys]
    IN  IF keys = {} THEN Step(Resolve(c, Empty), {})
        ELSE IF enabled THEN Step([c EXCEPT !.pc = "wait"], ReadRedis(p, keys))
        ELSE Step([c EXCEPT !.pc = "wait"], ReadMongo(p, keys))

\* what read issues once readRedis has resolved with `missing`
ReadMissing_Always(p, c, missing) ==
    ReadMongo(p, c.keys)
ReadMissing(p, c, missing) ==
    IF Cardinality(missing) > 0 THEN ReadMongo(p, missing) ELSE {}

ReadThen(c, o, r, rest) ==
    IF ~r.ok THEN Step(Reject(c, ErrorOf(o)), {})
    ELSE IF o.kind = "get"
    THEN LET c1 == [c EXCEPT !.got = Assign(@, [k \in o.keys |-> r.val])]
         IN  IF rest # {} THEN Step(c1, {})
             ELSE \* readRedis returns { cached, missing }; Object.assign(states, cached)
                  LET c2 == [c1 EXCEPT !.res = Assign(Empty, Cached(c1)),
                                       !.missing = Missing(c1), !.got = Empty]
                      more == ReadMissing(o.owner, c2, c2.missing)
                  IN  IF more # {} THEN Step(c2, more)
                      ELSE Step(Resolve(c2, c2.res), {})
    ELSE Step(Resolve(c, Assign(c.res, MongoStates(r.val))), {})

\* writeMongo(changes), lines 206-228: stamps each state, then one bulkWrite
Stamped(changes, id) ==
    [k \in DOMAIN changes |-> Stamp(changes[k], Token(k, DOMAIN changes, id))]
WriteMongo(p, changes) ==
    {[Op(p, "write", "bulkWrite", DOMAIN changes,
         [k \in DOMAIN changes |-> Stringify(changes[k])],
         [k \in DOMAIN changes |-> changes[k]["eTag"]])
        EXCEPT !.writeConcern = WriteConcern]}

\* writeRedis(changes), lines 196-204: one set per key
WriteRedis(p, changes) ==
    {Op(p, "write", "set", {k}, [x \in {k} |-> Stringify(changes[k])], Empty) :
        k \in DOMAIN changes}

\* write(changes), lines 142-151, on a store whose isCacheEnabled is `enabled`;
\* c.changes is the caller's object, which writeMongo mutates before writeRedis
\* serialises it
WriteStart(enabled, p, changes) ==
    LET c == [Idle EXCEPT !.op = "write", !.keys = DOMAIN changes, !.arg = changes,
                          !.changes = changes]
        st == Stamped(changes, nextId)
    IN  IF DOMAIN changes = {} THEN Step(Resolve(c, Empty), {})
        ELSE Step([c EXCEPT !.pc = "wait", !.changes = st],
                  WriteMongo(p, st) \cup (IF enabled THEN WriteRedis(p, st) ELSE {}))

WriteThen(c, o, r, rest) == Step(PromiseAll(c, o, r, rest), {})

\* deleteRedis / deleteMongo, lines 230-240
DeleteRedis_None(p, keys) ==
    {}
DeleteRedis(p, keys) ==
    {Op(p, "delete", "del", {k}, Empty, Empty) : k \in keys}
DeleteMongo(p, keys) ==
    {[Op(p, "delete", "deleteMany", keys, Empty, Empty) EXCEPT !.writeConcern = WriteConcern]}

\* delete(keys), lines 154-159, on a store whose rClient is `defined`.  deleteRedis runs whether or not the cache is
\* enabled: without an rClient every this.cache.del(key) throws a TypeError, so
\* deleteRedis rejects at once, and Promise.all with it, while the deleteMany that
\* was issued beside it is still in flight.
DeleteStart_NoEmptyCheck(defined, p, keys) ==
    LET c == [Idle EXCEPT !.op = "delete", !.keys = keys]
    IN  IF ~defined THEN Step(Reject(c, "TypeError"), DeleteMongo(p, keys))
        ELSE Step([c EXCEPT !.pc = "wait"], DeleteRedis(p, keys) \cup DeleteMongo(p, keys))
DeleteStart(defined, p, keys) ==
    LET c == [Idle EXCEPT !.op = "delete", !.keys = keys]
    IN  IF keys = {} THEN Step(Resolve(c, Empty), {})
        ELSE IF ~defined THEN Step(Reject(c, "TypeError"), DeleteMongo(p, keys))
        ELSE Step([c EXCEPT !.pc = "wait"], DeleteRedis(p, keys) \cup DeleteMongo(p, keys))

DeleteThen(c, o, r, rest) == Step(PromiseAll(c, o, r, rest), {})

\* health(), lines 243-264
HealthStart(p) ==
    Step([Idle EXCEPT !.op = "health", !.pc = "wait", !.res = [ok |-> 0, mongo |-> 0]],
         {Op(p, "health", "ping", {}, Empty, Empty)})

\* lines 259-263
HealthResult_MongoOnly(ping) ==
    [ping EXCEPT !.ok = ping.mongo]
HealthResult(ping) ==
    [ping EXCEPT !.ok = IF isCacheEnabled /\ ping.redis = 0 THEN 0 ELSE ping.mongo]

HealthThen(c, o, r, rest) ==
    IF ~r.ok THEN Step(Reject(c, ErrorOf(o)), {})
    ELSE IF o.kind = "ping"
    THEN \* line 246: a ping nobody awaits; a TypeError when there is no rClient
         IF ~rClientDefined THEN Step(Reject([c EXCEPT !.mongoResponse = r.val], "TypeError"), {})
         ELSE LET stray == [Op(o.owner, "health", "rping", {}, Empty, Empty) EXCEPT !.join = FALSE]
                  c1 == [c EXCEPT !.mongoResponse = r.val,
                                  !.res = [@ EXCEPT !.mongo = IF r.val = 1 THEN 1 ELSE 0]]
              IN  IF isCacheEnabled
                  THEN Step([c1 EXCEPT !.res = Assign(@, [redis |-> 0])],
                            {stray, Op(o.owner, "health", "rping", {}, Empty, Empty)})
                  ELSE Step(Resolve(c1, HealthResult(c1.res)), {stray})
    ELSE LET c1 == [c EXCEPT !.redisResponse = r.val,
                             !.res = [@ EXCEPT !.redis = IF r.val = 1 THEN 1 ELSE 0]]
         IN  Step(Resolve(c1, HealthResult(c1.res)), {})

\* the continuation of the method that awaits o
Then(c, o, r, rest) ==
    CASE c.op = "connect" -> ConnectThen(c, o, r, rest)
      [] c.op = "read"    -> ReadThen(c, o, r, rest)
      [] c.op = "write"   -> WriteThen(c, o, r, rest)
      [] c.op = "delete"  -> DeleteThen(c, o, r, rest)
      [] c.op = "health"  -> HealthThen(c, o, r, rest)

\* ------------------------------------------------------------------ bookkeeping
\* What a caller that issues its calls one at a time knows about key k once a call
\* has completed: the state its successful write stored ("known"), that its
\* successful delete removed the key ("absent"), or nothing ("unknown": the call
\* failed, or an operation of an earlier failed call on k is still in flight).
\* n counts the successful writes to the key in a row.
Known(st, n) == [is |-> "known", val |-> st, n |-> n]
Absent == [is |-> "absent", val |-> Empty, n |-> 0]
Unknown == [is |-> "unknown", val |-> Empty, n |-> 0]

\* the state the write call c was asked to store under k, with the token it generated
Expected(c, k) ==
    [f \in DOMAIN c.arg[k] \cup {"eTag"} |->
        IF f = "eTag" THEN c.changes[k]["eTag"] ELSE c.arg[k][f]]

LastAfter(c, inflight) ==
    IF c.pc = "done" /\ c.op \in {"write", "delete"}
    THEN [k \in Keys |->
            IF k \notin c.keys THEN last[k]
            ELSE IF c.out = "err" \/ \E o \in inflight : o.kind \in Effectful /\ k \in o.keys
            THEN Unknown
            ELSE IF c.op = "write" THEN Known(Expected(c, k), last[k].n + 1) ELSE Absent]
    ELSE last

PhaseAfter(c) ==
    IF c.op = "connect"
    THEN (IF c.pc = "wait" THEN "connecting" ELSE IF c.out = "ok" THEN "ready" ELSE "failed")
    ELSE phase

\* The reference store: every read, write and delete issued on the store is also
\* run, to its end and with no backend failure, on a store that was constructed
\* without the redis option (isCacheEnabled FALSE, no rClient) and has seen the same
\* calls.  Once a backend operation of the store has failed the comparison is off.
RefOff == [valid |-> FALSE, storage |-> {}, out |-> "none", err |-> "none", res |-> Empty]
RefRun(s) ==
    IF ~ref.valid THEN ref
    ELSE IF s.ops = {} THEN [ref EXCEPT !.out = s.call.out, !.err = s.call.err, !.res = s.call.res]
    ELSE LET o == CHOOSE x \in s.ops : TRUE
             r == [ok |-> TRUE, val |-> IF o.kind = "find" THEN Find(ref.storage, o.keys) ELSE 1]
             fin == IF s.call.pc = "done" THEN s.call ELSE Then(s.call, o, r, {}).call
         IN  [valid |-> TRUE, storage |-> StorageApply(ref.storage, o, r),
              out |-> fin.out, err |-> fin.err, res |-> fin.res]

\* ------------------------------------------------------------------ actions
\* new MongoStore(uri, options), lines 61-88, with options.redis given or not; no
\* call made yet; cs: the callers that will use the store
Constructed(cs) ==
    /\ isCacheEnabled \in BOOLEAN
    /\ phase = "new"
    /\ storage = {}
    /\ cache = [k \in Keys |-> Nil]
    /\ nextId = 1
    /\ callers = cs
    /\ call = [p \in callers |-> Idle]
    /\ ops = {}
    /\ last = [k \in Keys |-> Absent]
    /\ ref = [RefOff EXCEPT !.valid = TRUE]

\* options.disableWriteConcern left out: line 73 makes it false
Init ==
    /\ disableWriteConcern = FALSE
    /\ Constructed({"c1"})

\* options.disableWriteConcern given or left out
InitAnyConcern ==
    /\ disableWriteConcern \in BOOLEAN
    /\ Constructed({"c1"})

\* a store shared by two callers, whose calls may overlap
InitConcurrent ==
    /\ disableWriteConcern = FALSE
    /\ Constructed(Procs)

\* caller p invokes a method: it runs to its first await
Begin(p, s) ==
    LET inflight == {o \in ops : o.owner # p} \cup Detach(p) \cup s.ops
    IN  /\ call' = [call EXCEPT ![p] = s.call]
        /\ ops' = inflight
        /\ last' = LastAfter(s.call, inflight)
        /\ phase' = PhaseAfter(s.call)
        /\ UNCHANGED <<isCacheEnabled, disableWriteConcern, storage, cache, callers>>

Connect(p) ==
    /\ CanCall(p)
    /\ phase = "new"
    /\ Begin(p, ConnectStart(p))
    /\ UNCHANGED <<nextId, ref>>

Read(p, keys) ==
    /\ CanCall(p)
    /\ phase = "ready"
    /\ Begin(p, ReadStart(isCacheEnabled, p, keys))
    /\ ref' = RefRun(ReadStart(FALSE, p, keys))
    /\ UNCHANGED nextId

Write(p, changes) ==
    /\ CanCall(p)
    /\ phase = "ready"
    /\ nextId + Cardinality(DOMAIN changes) - 1 <= MaxId
    /\ Begin(p, WriteStart(isCacheEnabled, p, changes))
    /\ ref' = RefRun(WriteStart(FALSE, p, changes))
    /\ nextId' = nextId + Cardinality(DOMAIN changes)

Delete(p, keys) ==
    /\ CanCall(p)
    /\ phase = "ready"
    /\ Begin(p, DeleteStart(rClientDefined, p, keys))
    /\ ref' = RefRun(DeleteStart(FALSE, p, keys))
    /\ UNCHANGED nextId

Health(p) ==
    /\ CanCall(p)
    /\ phase = "ready"
    /\ Begin(p, HealthStart(p))
    /\ UNCHANGED <<nextId, ref>>

\* The one Redis client (createClient, line 85) sends its commands over one
\* connection and Redis answers them in the order sent: a command of the call in
\* progress is not answered before a command that an earlier call left in flight.
\* The MongoClient takes a connection of its pool for each call: no such order.
InOrder(o) ==
    (o.kind \in RedisKinds /\ o.owner # NoOwner)
        => ~\E x \in Detached : x.kind \in RedisKinds

\* a driver call settles: the backend applies it and replies, and the method that
\* awaits it runs on to its next await or to its end
Settle(o) ==
    /\ o \in ops
    /\ InOrder(o)
    /\ \E r \in Replies(o) :
        LET p == o.owner
            awaited == p \in callers /\ o.join /\ call[p].pc = "wait"
            rest == {x \in ops \ {o} : x.owner = p /\ x.join}
            s == IF awaited THEN Then(call[p], o, r, rest) ELSE [call |-> Idle, ops |-> {}]
            inflight == (ops \ {o}) \cup s.ops
        IN  /\ storage' = StorageAfter(o, r)
            /\ cache' = CacheAfter(o, r)
            /\ ops' = inflight
            /\ call' = IF awaited THEN [call EXCEPT ![p] = s.call] ELSE call
            /\ last' = IF awaited THEN LastAfter(s.call, inflight) ELSE last
            /\ phase' = IF awaited THEN PhaseAfter(s.call) ELSE phase
            /\ ref' = IF r.ok THEN ref ELSE RefOff
    /\ UNCHANGED <<isCacheEnabled, disableWriteConcern, nextId, callers>>

\* the environment: a cache entry outlives its TTL (EX cacheExpiration)
Expire(k) ==
    /\ cache[k] # Nil
    /\ cache' = [cache EXCEPT ![k] = Nil]
    /\ UNCHANGED <<isCacheEnabled, disableWriteConcern, phase, storage, nextId, callers,
                   call, ops, last, ref>>

\* the arguments callers pass
KeySets == SUBSET Keys
Changes == UNION {[ks -> States] : ks \in SUBSET Keys}

Next ==
    \/ \E p \in Procs : Connect(p)
    \/ \E p \in Procs, ks \in KeySets : Read(p, ks)
    \/ \E p \in Procs, ch \in Changes : Write(p, ch)
    \/ \E p \in Procs, ks \in KeySets : Delete(p, ks)
    \/ \E p \in Procs : Health(p)
    \/ \E o \in ops : Settle(o)
    \/ \E k \in Keys : Expire(k)

Spec == Init /\ [][Next]_vars

\* the same store, constructed with either value of options.disableWriteConcern
SpecAnyConcern == InitAnyConcern /\ [][Next]_vars

\* The caller whose write was rejected calls write again at once, with the same
\* objects (they carry the eTag the rejected call stamped on them).  Promise.all
\* rejected on the first rejection: the other operations of the rejected call may
\* still be in flight, and nothing lets the caller wait for them.
Retry(p) ==
    /\ p \in callers
    /\ call[p].op = "write" /\ call[p].pc = "done" /\ call[p].out = "err"
    /\ nextId + Cardinality(call[p].keys) - 1 <= MaxId
    /\ Begin(p, WriteStart(isCacheEnabled, p, call[p].changes))
    /\ ref' = RefRun(WriteStart(FALSE, p, call[p].changes))
    /\ nextId' = nextId + Cardinality(call[p].keys)

NextRetry ==
    \/ Next
    \/ \E p \in Procs : Retry(p)

\* the store with a caller that retries a rejected write
SpecRetry == Init /\ [][NextRetry]_vars

\* the store used by two writers at once, each making one write call
WriteOnce(p, changes) ==
    /\ call[p].op # "write"
    /\ Write(p, changes)

NextConcurrent ==
    \/ \E p \in Procs : Connect(p)
    \/ \E p \in Procs, ch \in Changes : WriteOnce(p, ch)
    \/ \E o \in ops : Settle(o)
    \/ \E k \in Keys : Expire(k)

SpecConcurrent == InitConcurrent /\ [][NextConcurrent]_vars

\* ------------------------------------------------------------------ properties
Calls == {call[p] : p \in callers}
ReadOk(c) == c.op = "read" /\ c.pc = "done" /\ c.out = "ok"
Docs(k) == {d \in storage : d._id = k}
Pending(p) == {o \in ops : o.owner = p}

C2_DeleteThenRead ==
    \A c \in Calls :
        /\ (c.op = "delete" /\ c.pc = "done" /\ c.out = "err")
                => c.err \in {"MongoError", "RedisError"}
        /\ ReadOk(c) => \A k \in c.keys : last[k].is = "absent" => k \notin DOMAIN c.res

\* C3: health() never rejects: every health call that completes returns a result.
C3_HealthNeverThrows ==
    \A c \in Calls : (c.op = "health" /\ c.pc = "done") => c.out = "ok"

\* C4: in every result health() returns, ok is 1 exactly when the durable store
\* probe succeeded and the cache is disabled or its probe succeeded; the mongo and
\* redis flags are those of the probes.
C4_HealthOverall ==
    \A c \in Calls :
        (c.op = "health" /\ c.pc = "done" /\ c.out = "ok")
            => /\ c.res.mongo = 1 <=> c.mongoResponse = 1
               /\ isCacheEnabled => (c.res.redis = 1 <=> c.redisResponse = 1)
               /\ c.res.ok = 1 <=>
                    (c.mongoResponse = 1 /\ (~isCacheEnabled \/ c.redisResponse = 1))

\* a result with the durable store up and the cache probe failed
C4_Witness ==
    \E c \in Calls :
        /\ c.op = "health" /\ c.pc = "done" /\ c.out = "ok"
        /\ c.mongoResponse = 1 /\ c.redisResponse = 0 /\ c.res.ok = 0

\* C5: the cache is optional. As long as no backend call has failed, every read,
\* write and delete completes with the outcome the same call has on a store
\* constructed without the cache, and a read returns the same mapping.
C5_SameWithoutCache ==
    \A c \in Calls :
        (c.pc = "done" /\ c.op \in {"read", "write", "delete"} /\ ref.valid)
            => /\ c.out = ref.out
               /\ c.op = "read" => c.res = ref.res

\* readRedis has returned and found every requested key in the cache
AllHits(c) ==
    /\ c.op = "read" /\ isCacheEnabled /\ c.keys # {}
    /\ c.missing = {} /\ DOMAIN c.res = c.keys

\* C6: with the cache enabled, a read whose every key is a cache hit completes
\* successfully without a durable-store call, so whatever the durable store's
\* state; for a key written successfully before, it returns the written state.
C6_ServedFromCache ==
    \A c \in Calls :
        /\ AllHits(c)
            => /\ c.pc = "done" /\ c.out = "ok"
               /\ c.issued = {"get"}
               /\ \A k \in c.keys : last[k].is = "known" => c.res[k] = last[k].val
        \* a successful write leaves each key in the cache, until the entry expires
        /\ (c.op = "write" /\ c.pc = "done" /\ c.out = "ok" /\ isCacheEnabled)
            => \A k \in c.keys : cache[k] \in {Nil, Stringify(c.changes[k])}

C6_Witness ==
    \E c \in Calls :
        /\ AllHits(c) /\ c.pc = "done" /\ c.keys = Keys
        /\ \A k \in Keys : last[k].is = "known"

\* C7: a read returns entries only for requested keys, and only for keys present
\* in a tier: none for a key that was never written or was deleted, none at all on
\* a store nothing was written to, and an entry taken from the collection is in the
\* collection.  A key that is absent causes no error: a read fails only when a
\* backend call fails.
C7_OnlyPresentKeys ==
    \A c \in Calls :
        /\ ReadOk(c) =>
            /\ DOMAIN c.res \subseteq c.keys
            /\ \A k \in DOMAIN c.res : last[k].is # "absent"
            /\ \A k \in DOMAIN c.res :
                    (~isCacheEnabled \/ k \in c.missing) => Docs(k) # {}
            /\ nextId = 1 => c.res = Empty
        /\ (c.op = "read" /\ c.pc = "done" /\ c.out = "err")
                => c.err \in {"MongoError", "RedisError"}

\* a read of a stored key and of a key in neither tier
C7_Witness ==
    \E c \in Calls :
        /\ ReadOk(c) /\ c.keys = Keys /\ DOMAIN c.res = {"a"}
        /\ cache["b"] = Nil /\ Docs("b") = {}

StepOf(kinds) ==
    \E p \in callers : call'[p] # call[p] /\ call'[p].op \in kinds
\* operations that settle in the step
Settled == {o \in ops : o \notin ops' /\ [o EXCEPT !.owner = NoOwner, !.join = FALSE] \notin ops'}

\* C10: read and health leave both tiers as they are; a cache entry is set only by
\* an operation of a write, and removed only by an operation of a delete or by
\* expiry; the collection changes only by an operation of a write or a delete.
C10_Frame ==
    [][ /\ StepOf({"read", "health"}) => (cache' = cache /\ storage' = storage)
        /\ \A k \in Keys :
            /\ (cache'[k] # cache[k] /\ cache'[k] # Nil)
                    => \E o \in Settled : o.from = "write" /\ k \in o.keys
            /\ (cache'[k] # cache[k] /\ cache'[k] = Nil)
                    => \/ \E o \in Settled : o.from = "delete" /\ k \in o.keys
                       \/ (ops' = ops /\ call' = call)
        /\ storage' # storage
                => \E o \in Settled : o.from \in {"write", "delete"} ]_vars

\* a read that missed the cache for a key and took it from the collection, the
\* cache still without the key
C10_Witness ==
    \E c \in Calls : \E k \in c.keys :
        /\ ReadOk(c) /\ isCacheEnabled /\ k \in c.missing /\ k \in DOMAIN c.res
        /\ cache[k] = Nil

\* connect() has completed
Connected(c) == c.op = "connect" /\ c.pc = "done"

\* C11: connect() rejects whenever the durable store connection or the configured
\* cache connection fails; a result it returns reports the durable store up, the
\* cache up when caching is enabled, and has no cache field when it is disabled.
\* (connect is the first call on a store: ref.valid says that no driver call has
\* been rejected so far.)
C11_ConnectAllOrError ==
    \A c \in Calls :
        /\ (Connected(c) /\ c.out = "ok")
            => /\ ref.valid
               /\ c.res = IF isCacheEnabled THEN [mongo |-> 1, redis |-> 1] ELSE [mongo |-> 1]
        /\ (Connected(c) /\ ~ref.valid) => (c.out = "err" /\ c.err \in {"MongoError", "RedisError"})
        /\ (Connected(c) /\ c.out = "err") => phase = "failed"

\* a connect that failed on the cache connection after the durable store connected
C11_Witness ==
    \E c \in Calls :
        /\ Connected(c) /\ c.out = "err" /\ c.err = "RedisError"
        /\ c.res = [mongo |-> 1, redis |-> 0]

\* C12: with caching disabled health() issues no cache probe, and with the durable
\* store answering its ping it returns { ok: 1, mongo: 1 } with no redis field.
C12_HealthWithoutCache ==
    \A c \in Calls :
        (c.op = "health" /\ ~isCacheEnabled)
            => /\ "rping" \notin c.issued
               /\ (c.pc = "done" /\ c.mongoResponse = 1)
                    => (c.out = "ok" /\ c.res = [ok |-> 1, mongo |-> 1])

\* a read, write or delete call whose argument is empty
EmptyCall(c) == c.op \in {"read", "write", "delete"} /\ c.keys = {}

\* C13: a read of no keys returns {} and a write of no changes and a delete of no
\* keys return at once; none of them issues a driver call, and the step in which
\* the call is made leaves the cache and the collection as they are.
C13_EmptyInput ==
    [][ \A p \in callers :
            (call'[p] # call[p] /\ EmptyCall(call'[p]))
                => /\ call'[p].pc = "done" /\ call'[p].out = "ok"
                   /\ call'[p].res = Empty
                   /\ call'[p].issued = {}
                   /\ {o \in ops' : o.owner = p} = {}
                   /\ ops' \subseteq ops
                   /\ cache' = cache /\ storage' = storage ]_vars

\* an empty delete on a store that holds a document and a cache entry
C13_Witness ==
    \E c \in Calls :
        /\ EmptyCall(c) /\ c.op = "delete" /\ c.pc = "done"
        /\ storage # {} /\ \E k \in Keys : cache[k] # Nil

\* the collection's write calls in flight
MongoWrites(S) == {o \in S : o.kind \in {"bulkWrite", "deleteMany"}}

CacheReply(p, k) == IF k \in DOMAIN call[p].got THEN call[p].got[k] ELSE cache[k]
\* the lookups in the collection that caller p issues in the step
NewFinds(p) == {o \in ops' \ ops : o.owner = p /\ o.kind = "find"}
\* the step in which readRedis returns to caller p's read
ReadRedisReturns(p) ==
    /\ call[p].op = "read" /\ call[p].pc = "wait" /\ call[p].issued = {"get"}
    /\ call'[p] # call[p] /\ call'[p].out # "err"
    /\ call'[p].pc = "done" \/ "find" \in call'[p].issued

\* C15: with the cache enabled a read looks every key up in the cache; it then
\* issues at most one find, for exactly the keys the cache had no value for, and
\* none when there is no such key; for a key the cache had a value for, the result
\* has that value, whatever the collection holds.
C15_CacheAside ==
    [][ \A p \in callers : isCacheEnabled =>
        \* the call is made: one get per key and no find
        /\ (call[p].pc # "wait" /\ call'[p].op = "read" /\ call'[p].pc = "wait")
            => /\ \A k \in call'[p].keys :
                    \E o \in ops' : o.owner = p /\ o.kind = "get" /\ o.keys = {k}
               /\ NewFinds(p) = {}
        \* readRedis returns: the find for the keys without a cached value
        /\ NewFinds(p) # {} => ReadRedisReturns(p)
        /\ ReadRedisReturns(p)
            => LET hit == {k \in call[p].keys : CacheReply(p, k) # Nil}
                   miss == call[p].keys \ hit
               IN  /\ call'[p].missing = miss
                   /\ \A k \in hit : call'[p].res[k] = Parse(CacheReply(p, k))
                   /\ IF miss = {} THEN NewFinds(p) = {} /\ call'[p].pc = "done"
                      ELSE /\ Cardinality(NewFinds(p)) = 1
                           /\ \A o \in NewFinds(p) : o.keys = miss
        \* the find returns: the cached values stay
        /\ (call[p].op = "read" /\ call[p].pc = "wait" /\ "find" \in call[p].issued
                /\ call'[p].out = "ok")
            => /\ NewFinds(p) = {}
               /\ \A k \in call[p].keys \ call[p].missing :
                    k \in DOMAIN call'[p].res /\ call'[p].res[k] = call[p].res[k] ]_vars

\* a read of both keys: "a" came from the cache, whose value differs from the
\* document of "a" in the collection, and "b" was looked up in the collection
C15_Witness ==
    \E c \in Calls :
        /\ ReadOk(c) /\ isCacheEnabled /\ c.keys = Keys /\ c.missing = {"b"}
        /\ c.issued = {"get", "find"}
        /\ \E d \in Docs("a") : Parse(d.state) # c.res["a"]

\* the tokens in the texts a write operation carries
TagsOf(o) == {Parse(o.data[k])["eTag"] : k \in o.keys}
\* the write calls that got past the empty check
Writes == {c \in Calls : c.op = "write" /\ c.keys # {}}

C19_QuiescentCoherence ==
    (isCacheEnabled /\ ref.valid) =>
        /\ (\A c \in Calls : c.pc # "wait") =>
                \A k \in Keys : cache[k] # Nil =>
                    Docs(k) = {[_id |-> k, state |-> cache[k], etag |-> Parse(cache[k])["eTag"]]}
        /\ \A c \in Calls : ReadOk(c) =>
                \A k \in DOMAIN c.res :
                    /\ last[k].is # "absent"
                    /\ \E d \in Docs(k) : c.res[k] = Parse(d.state)

\* after writes to both keys and a delete of "a", a read of both returns "b" only,
\* from the cache
C19_Witness ==
    \E c \in Calls :
        /\ ReadOk(c) /\ isCacheEnabled /\ ref.valid /\ c.keys = Keys
        /\ last["a"].is = "absent" /\ last["b"].is = "known"
        /\ c.missing = {"a"} /\ DOMAIN c.res = {"b"} /\ cache["b"] # Nil

\* caller p's write call has completed successfully
WroteOk(c) == c.op = "write" /\ c.pc = "done" /\ c.out = "ok"
\* the document and the cache text that write call c produces for key k
DocOf(c, k) == [_id |-> k, state |-> Stringify(c.changes[k]), etag |-> c.changes[k]["eTag"]]
TextOf(c, k) == Stringify(c.changes[k])
\* operation o, awaited by its write call, settles in the step and is not rejected
Lands(o) ==
    /\ o \in Settled /\ o.owner \in callers
    /\ call[o.owner].op = "write" /\ call[o.owner].pc = "wait"
    /\ call'[o.owner].out # "err"

\* C16: two write calls overlap on a store with two callers.  In each tier, a
\* write operation that lands replaces what the tier holds for its keys, and a key
\* changes in a tier only when an operation on it lands or the cache entry
\* expires; so once both calls have completed successfully, each tier holds for a
\* key of both the payload of one of the two calls, the one that landed there
\* last: the cache and the collection each on their own.
C16_LastWriterWins ==
    [][ /\ \A o \in ops : Lands(o) =>
              \A k \in o.keys :
                  /\ o.kind = "bulkWrite" =>
                        {d \in storage' : d._id = k} = {DocOf(call[o.owner], k)}
                  /\ o.kind = "set" => cache'[k] = TextOf(call[o.owner], k)
        /\ \A k \in Keys :
              /\ {d \in storage' : d._id = k} # Docs(k)
                    => \E o \in Settled : o.kind = "bulkWrite" /\ k \in o.keys
              /\ (cache'[k] # cache[k] /\ cache'[k] # Nil)
                    => \E o \in Settled : o.kind = "set" /\ k \in o.keys
        /\ \A k \in Keys :
              (\A p \in Procs : p \in callers /\ WroteOk(call'[p]) /\ k \in call'[p].keys)
                => /\ \E p \in Procs : {d \in storage' : d._id = k} = {DocOf(call'[p], k)}
                   /\ isCacheEnabled =>
                        \E p \in Procs : cache'[k] \in {Nil, TextOf(call'[p], k)} ]_vars

\* both calls wrote "a" and completed successfully: the collection holds the
\* payload of the first caller and the cache the payload of the second
C16_Witness ==
    /\ \A p \in Procs : p \in callers /\ WroteOk(call[p]) /\ "a" \in call[p].keys
    /\ Docs("a") = {DocOf(call["c1"], "a")}
    /\ cache["a"] = TextOf(call["c2"], "a")
    /\ call["c1"].changes["a"] # call["c2"].changes["a"]

\* a write call made again after its rejection: its argument still carries the
\* eTags that the rejected call stamped
IsRetry(c) ==
    /\ c.op = "write" /\ c.keys # {}
    /\ \A k \in c.keys : "eTag" \in DOMAIN c.arg[k] /\ c.arg[k]["eTag"] \notin CallerTags

\* C17: a write rejected after one tier failed is not rolled back in the other
\* tier; when the caller makes the same write again, with no other call in
\* between, and that call completes successfully, the collection holds for every
\* key of the write the payload of that call, and so does the cache (unless the
\* entry has expired).
C17_RetryRepairs ==
    \A c \in Calls :
        (IsRetry(c) /\ WroteOk(c))
            => \A k \in c.keys :
                /\ Docs(k) = {DocOf(c, k)}
                /\ isCacheEnabled => cache[k] \in {Nil, TextOf(c, k)}
====
